---- MODULE Spec2Model ----
(***************************************************************************)
(* xkbgroup.core: the XKeyboard session (connection to the X server plus   *)
(* the keyboard description snapshot) and the symbol-string parser         *)
(* _parse_symbols.                                                         *)
(*                                                                         *)
(* Spec      : one XKeyboard instance driven by an arbitrary caller, the   *)
(*             X server answering every request nondeterministically.     *)
(* SpecParse : _parse_symbols applied to symbol strings built from tokens. *)
(* SpecQuery : the accessors of an open XKeyboard over the group names and *)
(*             the symbols name of the server's keyboard.                  *)
(***************************************************************************)
EXTENDS Integers, Sequences, FiniteSets, TLC

VARIABLES
    phase,                  \* "new" (allocated, __init__ not run), "live", "dead"
    self,                   \* the instance's attributes: name -> pointer
    conns,                  \* server side: connections acquired and not released
    descs,                  \* client heap: components loaded in each description
    srvGroup,               \* server side: the effective keyboard group
    srvNumGroups,           \* server side: controls num_groups
    groupsWrap,             \* server side: out-of-range policy of controls groups_wrap
    prevOp,                 \* the operation that returned before the last one
    lastOp,                 \* the operation that returned last
    exc,                    \* the exception it raised ("none": returned normally)
    msg,                    \* the exception's message
    ret,                    \* the value it returned
    arg,                    \* the value it was given
    calls,                  \* the Xlib calls it made, in order
    toks,                   \* the tokens the symbol string was composed of
    in_symbols_str,         \* the symbol string given to _parse_symbols
    in_non_symbols,         \* the ignored symbols given to _parse_symbols
    py_optimize,            \* whether the interpreter runs with -O
    parsed,                 \* the outcome of _parse_symbols
    groups_source,          \* names.groups of the description: the group name atoms
    symbols_source          \* names.symbols of the description: the symbols name atom

sessionVars == <<phase, self, conns, descs, srvGroup,
                 srvNumGroups, groupsWrap, prevOp, lastOp, exc, msg, ret, arg, calls>>

parserVars == <<toks, in_symbols_str, in_non_symbols, py_optimize, parsed>>

namesVars == <<groups_source, symbols_source>>

vars == <<sessionVars, parserVars, namesVars>>

-----------------------------------------------------------------------------
(* Bounds *)

\* Clients the X server accepts before it refuses a connection.
MaxConns == 2
\* Integers assigned to group_num range over -MaxValue .. MaxValue.
MaxValue == 4
\* Tokens of a symbol string.
MaxTokens == 3
\* Explicit index suffixes range over 0 .. MaxSuffix.
MaxSuffix == 2
\* Tokens of the symbols name of the keyboard an XKeyboard is opened on.
MaxLayouts == 2

(* Program constants *)

XkbNumKbdGroups == 4

-----------------------------------------------------------------------------
(* Python values *)

\* A NULL pointer returned by Xlib; handles and descriptions are 1, 2, ...
Null == 0

\* Python objects given to and returned by the operations.
PyInt(n) == [type |-> "int", int |-> n, str |-> ""]
PyStr(t) == [type |-> "str", int |-> 0, str |-> t]
None     == [type |-> "NoneType", int |-> 0, str |-> ""]

ConnIds == 1 .. MaxConns
DescIds == 1 .. MaxConns

\* Truth value of a ctypes pointer.
Truthy(v) == v # Null

\* Names hasattr() finds on the instance: the two instance attributes when they
\* are set, and the attributes of the class.
ClassAttrs ==
    {"open_display", "close_display", "groups_data", "groups_count",
     "groups_names", "groups_symbols", "groups_variants", "group_data",
     "group_num", "group_name", "group_symbol", "group_variant",
     "_groups_source", "_symbols_source", "_symboldata_list",
     "_get_group_name_by_num"}

hasattr(obj, name) == name \in ClassAttrs \cup DOMAIN obj

\* self.<name> = value, and del self.<name>
setattr(obj, name, value) ==
    [a \in DOMAIN obj \cup {name} |-> IF a = name THEN value ELSE obj[a]]
delattr(obj, name) == [a \in DOMAIN obj \ {name} |-> obj[a]]

isinstance(obj, type) == obj.type = type

IntValues  == (0 - MaxValue) .. MaxValue
WideValues == {128, 256}
Values     == {PyInt(n) : n \in IntValues \cup WideValues} \cup {PyStr("fr")}

-----------------------------------------------------------------------------
(* Xlib / XKB: the capability interface of the X server *)

XkbOD_Success == "XkbOD_Success"

OPEN_DISPLAY_ERRORS ==
    [XkbOD_BadLibraryVersion |-> "Compile-time and runtime XKB libraries not compatible",
     XkbOD_ConnectionRefused |-> "Display could not be opened",
     XkbOD_BadServerVersion  |-> "Library and server have incompatible XKB versions",
     XkbOD_NonXkbServer      |-> "XKB not present in the X server"]

Success == "Success"

GET_CONTROLS_ERRORS ==
    [BadAlloc          |-> "Unable to allocate storage",
     BadImplementation |-> "Invalid reply from server",
     BadMatch          |-> "A compatible version of Xkb was not available in the server"]

GET_NAMES_ERRORS ==
    [BadAlloc          |-> "Unable to allocate storage",
     BadImplementation |-> "Invalid reply from server",
     BadLength         |-> "The length of a request is shorter or longer than required",
     BadMatch          |-> "A compatible version of Xkb was not available in the server"]

Parts == {"map", "ctrls", "names"}
NoDesc == [parts |-> {}, num_groups |-> 0]

\* A call of the Xlib function fn with the handle h in the log of calls; ok
\* is whether it succeeded (TRUE for the calls whose result is not modelled).
Answered(fn, h, ok) == [fn |-> fn, h |-> h, ok |-> ok]
Call(fn, h) == Answered(fn, h, TRUE)

\* The lowest unused handle.
Fresh(used, ids) == CHOOSE i \in ids \ used : \A j \in ids \ used : i <= j

Allocated(ds) == {d \in DescIds : ds[d].parts # {}}

\* XkbFreeNames / XkbFreeControls / XkbFreeClientMap with free_all = True:
\* the component is released; releasing an absent component does nothing.
XkbFree(ds, d, part) ==
    IF d \in DescIds
    THEN [ds EXCEPT ![d] = IF ds[d].parts \ {part} = {}
                           THEN NoDesc
                           ELSE [ds[d] EXCEPT !.parts = @ \ {part}]]
    ELSE ds

\* The group byte of the lock request (CARD8) read back as a signed char.
XkbCharToInt(v) == IF v % 256 >= 128 THEN (v % 256) - 256 ELSE v % 256

\* The server brings a locked group into 0 .. num_groups-1 by groups_wrap.
XkbAdjustGroup(group, n, wrap) ==
    IF group < 0
    THEN (IF wrap = "XkbWrapIntoRange" THEN group % n ELSE 0)
    ELSE IF group >= n
    THEN (CASE wrap = "XkbWrapIntoRange"     -> group % n
            [] wrap = "XkbClampIntoRange"    -> n - 1
            [] wrap = "XkbRedirectIntoRange" -> 0)
    ELSE group

-----------------------------------------------------------------------------
(* XKeyboard: the operations as functions of the instance and its world    *)
(* w = [self, conns, descs, calls]                                         *)

World == [self |-> self, conns |-> conns, descs |-> descs, calls |-> << >>]

Raise(w, type, text) == [w |-> w, exc |-> type, msg |-> text, ret |-> None]
Return(w, value)     == [w |-> w, exc |-> "none", msg |-> "", ret |-> value]

\* A close_display that releases the description and keeps the attribute.
close_display_kbd_keeps(w) ==
    IF hasattr(w.self, "_keyboard_description") /\ Truthy(w.self._keyboard_description)
    THEN LET kbd == w.self._keyboard_description
         IN  [w EXCEPT
                !.descs = XkbFree(XkbFree(XkbFree(w.descs, kbd, "names"),
                                          kbd, "ctrls"), kbd, "map"),
                !.calls = w.calls \o <<Call("XkbFreeNames", kbd),
                                       Call("XkbFreeControls", kbd),
                                       Call("XkbFreeClientMap", kbd)>>]
    ELSE w

\* close_display, lines 155-160: the description, when the attribute is set
\* and not NULL, is released (names, controls, map) and the attribute deleted.
close_display_kbd(w) ==
    IF hasattr(w.self, "_keyboard_description") /\ Truthy(w.self._keyboard_description)
    THEN LET kbd == w.self._keyboard_description
         IN  [w EXCEPT
                !.descs = XkbFree(XkbFree(XkbFree(w.descs, kbd, "names"),
                                          kbd, "ctrls"), kbd, "map"),
                !.calls = w.calls \o <<Call("XkbFreeNames", kbd),
                                       Call("XkbFreeControls", kbd),
                                       Call("XkbFreeClientMap", kbd)>>,
                !.self = delattr(w.self, "_keyboard_description")]
    ELSE w

\* close_display, lines 162-164: the guard asks for an attribute "display";
\* reading self._display of an instance without it raises AttributeError.
close_display_conn(w) ==
    IF hasattr(w.self, "display")
    THEN IF "_display" \notin DOMAIN w.self
         THEN Raise(w, "AttributeError", "_display")
         ELSE IF Truthy(w.self._display)
         THEN Return([w EXCEPT
                        !.conns = w.conns \ {w.self._display},
                        !.calls = Append(w.calls, Call("XCloseDisplay", w.self._display)),
                        !.self = delattr(w.self, "_display")], None)
         ELSE Return(w, None)
    ELSE Return(w, None)

close_display_op(w) == close_display_conn(close_display_kbd(w))

\* self.close_display() followed by raise type(text)
CloseAndRaise(w, type, text) ==
    IF close_display_op(w).exc # "none"
    THEN close_display_op(w)
    ELSE Raise(close_display_op(w).w, type, text)

\* The server answered the request with a status other than Success.
Failed(status) == status # Success

\* A test that lets every status pass.
StatusNeverRaises(status) == FALSE

\* if status != Success: raise X11Error(...)
StatusRaises(status) == status # Success

\* open_display after its first line; the server's answers are reason
\* (XkbOpenDisplay), mapOk (XkbGetMap), ctrlStatus (XkbGetControls) and
\* nameStatus (XkbGetNames).
Handshake(w0, nGroups, answer) ==
    LET reason == answer.reason
        mapOk == answer.mapOk
        ctrlStatus == answer.ctrlStatus
        nameStatus == answer.nameStatus
        h  == IF reason = XkbOD_Success THEN Fresh(w0.conns, ConnIds) ELSE Null
        w1 == [w0 EXCEPT
                 !.calls = @ \o <<Call("XkbIgnoreExtension", Null),
                                  Answered("XkbOpenDisplay", Null,
                                           reason = XkbOD_Success)>>,
                 !.conns = IF h # Null THEN @ \cup {h} ELSE @,
                 !.self = setattr(@, "_display", h)]
        d  == IF mapOk THEN Fresh(Allocated(w1.descs), DescIds) ELSE Null
        w2 == [w1 EXCEPT
                 !.calls = Append(@, Answered("XkbGetMap", h, mapOk)),
                 !.descs = IF d # Null
                           THEN [@ EXCEPT ![d] = [parts |-> {"map"}, num_groups |-> 0]]
                           ELSE @,
                 !.self = setattr(@, "_keyboard_description", d)]
        w3 == [w2 EXCEPT
                 !.calls = Append(@, Answered("XkbGetControls", h, ~Failed(ctrlStatus))),
                 !.descs = IF ctrlStatus = Success
                           THEN [@ EXCEPT ![d] = [parts |-> @.parts \cup {"ctrls"},
                                                  num_groups |-> nGroups]]
                           ELSE @]
        w4 == [w3 EXCEPT
                 !.calls = Append(@, Answered("XkbGetNames", h, ~Failed(nameStatus))),
                 !.descs = IF nameStatus = Success
                           THEN [@ EXCEPT ![d].parts = @ \cup {"names"}]
                           ELSE @]
    IN  IF reason \in DOMAIN OPEN_DISPLAY_ERRORS
        THEN Raise(w1, "X11Error", OPEN_DISPLAY_ERRORS[reason])
        ELSE IF ~Truthy(w2.self._keyboard_description)
        THEN CloseAndRaise(w2, "X11Error", "Failed to get keyboard description")
        ELSE IF StatusRaises(ctrlStatus)
        THEN CloseAndRaise(w3, "X11Error", GET_CONTROLS_ERRORS[ctrlStatus])
        ELSE IF StatusRaises(nameStatus)
        THEN CloseAndRaise(w4, "X11Error", GET_NAMES_ERRORS[nameStatus])
        ELSE Return(w4, None)

\* An open_display that does not close first.
open_display_keeps(w, nGroups, answer) == Handshake(w, nGroups, answer)

open_display_op(w, nGroups, answer) ==
    IF close_display_op(w).exc # "none"
    THEN close_display_op(w)
    ELSE Handshake(close_display_op(w).w, nGroups, answer)

\* What the server can answer to XkbOpenDisplay: it grants a connection only
\* while it has a free client slot.
OpenReasons(w) ==
    {r \in {XkbOD_Success} \cup DOMAIN OPEN_DISPLAY_ERRORS :
        r = XkbOD_Success => Cardinality(close_display_op(w).w.conns) < MaxConns}

\* The server's answers to one open_display: a step that is not reached gets
\* no answer (written here as its success value).
Answer(reason, mapOk, ctrlStatus, nameStatus) ==
    [reason |-> reason, mapOk |-> mapOk, ctrlStatus |-> ctrlStatus,
     nameStatus |-> nameStatus]

OpenAnswers(w) ==
    {Answer(r, TRUE, Success, Success) : r \in OpenReasons(w)}
    \cup (IF XkbOD_Success \in OpenReasons(w)
          THEN {Answer(XkbOD_Success, FALSE, Success, Success)}
               \cup {Answer(XkbOD_Success, TRUE, c, Success) :
                        c \in DOMAIN GET_CONTROLS_ERRORS}
               \cup {Answer(XkbOD_Success, TRUE, Success, n) :
                        n \in DOMAIN GET_NAMES_ERRORS}
          ELSE {})

\* Passing self._display to Xlib: an instance without the attribute raises
\* AttributeError; a NULL or released handle is dereferenced by Xlib.
DisplayUse(w) ==
    IF ~hasattr(w.self, "_display") THEN "AttributeError"
    ELSE IF w.self._display \notin w.conns THEN "crash"
    ELSE "ok"

\* A check that lets every value pass.
_ensure_type_passes(obj, type) == TRUE

\* TRUE when the check passes, FALSE when it raises ValueError.
_ensure_type(obj, type) == isinstance(obj, type)

\* The atom None of X.h: no name.
None_ == 0

\* A scan that tests the slot before it tests the bound.
RECURSIVE ScanGroupsPastEnd(_, _, _)
ScanGroupsPastEnd(source, count, reads) ==
    IF count <= XkbNumKbdGroups
    THEN IF count + 1 \in DOMAIN source /\ source[count + 1] # None_
         THEN ScanGroupsPastEnd(source, count + 1, Append(reads, count))
         ELSE [count |-> count, reads |-> Append(reads, count)]
    ELSE [count |-> count, reads |-> reads]

\* groups_count, lines 203-208: the loop over the group name slots from
\* groups_count on; reads are the slots read so far, source[count + 1] is
\* groups_source[groups_count].
RECURSIVE ScanGroups(_, _, _)
ScanGroups(source, count, reads) ==
    IF count < XkbNumKbdGroups
    THEN IF source[count + 1] # None_
         THEN ScanGroups(source, count + 1, Append(reads, count))
         ELSE [count |-> count, reads |-> Append(reads, count)]
    ELSE [count |-> count, reads |-> reads]

\* groups_count: num_groups of the controls block of the description when
\* the block is there, else the number of leading named slots.  The slots it
\* reads are logged as calls of "groups_source[]".
groups_count_op(w) ==
    LET kbd == w.descs[w.self._keyboard_description]
    IN  IF "ctrls" \in kbd.parts
        THEN Return(w, PyInt(kbd.num_groups))
        ELSE LET scan == ScanGroups(groups_source, 0, << >>)
             IN  Return([w EXCEPT !.calls = @ \o
                            [k \in 1 .. Len(scan.reads) |->
                                Call("groups_source[]", scan.reads[k])]],
                        PyInt(scan.count))

groups_count(w) == groups_count_op(w).ret.int

\* A getter that answers from the value assigned last instead of asking the
\* server.
group_num_cached(w, group) ==
    IF arg.type = "int" THEN Return(w, arg) ELSE Return(w, PyInt(group))

\* The group_num getter; group is the server's answer to XkbGetState.
group_num_op(w, group) ==
    CASE DisplayUse(w) = "AttributeError" ->
            Raise(w, "AttributeError", "_display")
      [] DisplayUse(w) = "crash" ->
            Raise([w EXCEPT !.calls = Append(@, Call("XkbGetState", w.self._display))],
                  "crash", "invalid display handle")
      [] OTHER ->
            Return([w EXCEPT !.calls = Append(@, Call("XkbGetState", w.self._display))],
                   PyInt(group))

\* A setter that takes group numbers to count from one.
LockRequestFromOne(value) == value.int - 1

\* The group the setter asks the server to lock.
LockRequest(value) == value.int

\* A setter that does not flush the lock request.
group_num_setter_no_flush(w, value, accepted) ==
    IF ~_ensure_type(value, "int")
    THEN Raise(w, "ValueError", "Wrong value type")
    ELSE CASE DisplayUse(w) = "AttributeError" ->
                Raise(w, "AttributeError", "_display")
           [] DisplayUse(w) = "crash" ->
                Raise([w EXCEPT !.calls =
                         Append(@, Call("XkbLockGroup", w.self._display))],
                      "crash", "invalid display handle")
           [] OTHER ->
                IF accepted
                THEN Return([w EXCEPT !.calls =
                                Append(@, Call("XkbLockGroup", w.self._display))], None)
                ELSE CloseAndRaise(
                        [w EXCEPT !.calls =
                            Append(@, Call("XkbLockGroup", w.self._display))],
                        "X11Error", "Failed to set group number")

\* The group_num setter; accepted is XkbLockGroup's result.
group_num_setter_op(w, value, accepted) ==
    IF ~_ensure_type(value, "int")
    THEN Raise(w, "ValueError", "Wrong value type")
    ELSE CASE DisplayUse(w) = "AttributeError" ->
                Raise(w, "AttributeError", "_display")
           [] DisplayUse(w) = "crash" ->
                Raise([w EXCEPT !.calls =
                         Append(@, Call("XkbLockGroup", w.self._display))],
                      "crash", "invalid display handle")
           [] OTHER ->
                IF accepted
                THEN Return([w EXCEPT !.calls = @ \o
                                <<Call("XkbLockGroup", w.self._display),
                                  Call("XFlush", w.self._display)>>], None)
                ELSE CloseAndRaise(
                        [w EXCEPT !.calls =
                            Append(@, Call("XkbLockGroup", w.self._display))],
                        "X11Error", "Failed to set group number")

\* The server's group after an accepted lock request for group.
XkbLockGroup(group, n, wrap) == XkbAdjustGroup(XkbCharToInt(group), n, wrap)

-----------------------------------------------------------------------------
(* _parse_symbols.  A str is the sequence of its characters; an optional   *)
(* value (a regex group that may not take part, None) is << >> or <<v>>.   *)

Digits == <<"0", "1", "2", "3", "4", "5", "6", "7", "8", "9">>

IsDigit(c) == \E i \in 1 .. Len(Digits) : Digits[i] = c
\* \w of the characters the model writes: letters, digits and the underscore.
IsWord(c) == IsDigit(c) \/ c \in {"_", "a", "b", "c", "d", "f", "h", "p", "r", "s", "u"}

DigitValue(c) == (CHOOSE i \in 1 .. Len(Digits) : Digits[i] = c) - 1

\* int(text) of a str of decimal digits
RECURSIVE int(_)
int(text) ==
    IF Len(text) = 0 THEN 0
    ELSE 10 * int(SubSeq(text, 1, Len(text) - 1)) + DigitValue(text[Len(text)])

\* str(n) of a non-negative int
RECURSIVE str(_)
str(n) == IF n < 10 THEN <<Digits[n + 1]>> ELSE Append(str(n \div 10), Digits[(n % 10) + 1])

\* text.split(sep)
RECURSIVE split(_, _)
split(text, sep) ==
    IF \E i \in 1 .. Len(text) : text[i] = sep
    THEN LET i == CHOOSE k \in 1 .. Len(text) :
                     text[k] = sep /\ \A j \in 1 .. k - 1 : text[j] # sep
         IN  <<SubSeq(text, 1, i - 1)>> \o split(SubSeq(text, i + 1, Len(text)), sep)
    ELSE <<text>>

AllWord(text, from, to)   == \A k \in from .. to : IsWord(text[k])
AllDigits(text, from, to) == \A k \in from .. to : IsDigit(text[k])

\* SYMBOL_REGEX.fullmatch(symstr): the ways symstr splits into
\*   (?P<symbol>\w+) (?:\((?P<variant>\w+)\))? (?::(?P<index>\d+))?
\* with a the end of the symbol and b the end of the variant part.
SymbolEnds(symstr) == {a \in 1 .. Len(symstr) : AllWord(symstr, 1, a)}

VariantEnds(symstr, a) ==
    {a} \cup {b \in a + 3 .. Len(symstr) :
                /\ symstr[a + 1] = "("
                /\ symstr[b] = ")"
                /\ AllWord(symstr, a + 2, b - 1)}

IndexMatches(symstr, b) ==
    \/ b = Len(symstr)
    \/ /\ Len(symstr) >= b + 2
       /\ symstr[b + 1] = ":"
       /\ AllDigits(symstr, b + 2, Len(symstr))

\* SYMBOL_REGEX.match(symstr): the pattern matched at the start of symstr,
\* each part as long as it can be, whatever follows it.
SYMBOL_REGEX_match(symstr) ==
    IF SymbolEnds(symstr) = {} THEN {}
    ELSE LET a  == CHOOSE x \in SymbolEnds(symstr) : x + 1 \notin SymbolEnds(symstr)
             bs == VariantEnds(symstr, a) \ {a}
             b  == IF bs = {} THEN a ELSE CHOOSE x \in bs : TRUE
             es == {e \in b + 2 .. Len(symstr) :
                      symstr[b + 1] = ":" /\ AllDigits(symstr, b + 2, e)}
         IN  {[symbol  |-> SubSeq(symstr, 1, a),
               variant |-> IF b = a THEN << >> ELSE <<SubSeq(symstr, a + 2, b - 1)>>,
               index   |-> IF es = {} THEN << >>
                           ELSE <<SubSeq(symstr, b + 2,
                                         CHOOSE e \in es : e + 1 \notin es)>>]}

SYMBOL_REGEX(symstr) ==
    {[symbol  |-> SubSeq(symstr, 1, m[1]),
      variant |-> IF m[2] = m[1] THEN << >>
                  ELSE <<SubSeq(symstr, m[1] + 2, m[2] - 1)>>,
      index   |-> IF m[2] = Len(symstr) THEN << >>
                  ELSE <<SubSeq(symstr, m[2] + 2, Len(symstr))>>] :
     m \in {ab \in UNION {{<<a, b>> : b \in VariantEnds(symstr, a)} :
                            a \in SymbolEnds(symstr)} :
              IndexMatches(symstr, ab[2])}}

SymbolData(symbol, variant, index) ==
    [symbol |-> symbol, variant |-> variant, index |-> index]

\* An index that keeps the suffix as written, counting from one.
SymbolIndexAsWritten(index, default_index) ==
    IF index # << >> /\ index[1] # << >> THEN int(index[1]) ELSE default_index

\* The index of a matched token: int(index) - 1 if index else default_index
SymbolIndex(index, default_index) ==
    IF index # << >> /\ index[1] # << >> THEN int(index[1]) - 1 ELSE default_index

\* get_symboldata(symstr): << >> when it raises X11Error, else <<SymbolData>>
get_symboldata(symstr, default_index) ==
    LET matches == SYMBOL_REGEX(symstr)
    IN  IF matches # {}
        THEN LET match == CHOOSE m \in matches : TRUE
             IN  <<SymbolData(match.symbol, match.variant,
                              SymbolIndex(match.index, default_index))>>
        ELSE << >>

\* A loop that appends the record of every token, the ignored ones too.
RECURSIVE ParseLoopKeepsIgnored(_, _, _, _, _)
ParseLoopKeepsIgnored(tokens, i, acc, non_symbols, default_index) ==
    IF i > Len(tokens) THEN [exc |-> "none", list |-> acc]
    ELSE LET symboldata == get_symboldata(tokens[i], default_index)
         IN  IF symboldata = << >>
             THEN [exc |-> "X11Error", list |-> << >>]
             ELSE ParseLoopKeepsIgnored(tokens, i + 1, Append(acc, symboldata[1]),
                                        non_symbols, default_index)

\* The loop of _parse_symbols over the tokens from position i on: the records
\* appended so far are acc; a malformed token ends it with X11Error.
RECURSIVE ParseLoop(_, _, _, _, _)
ParseLoop(tokens, i, acc, non_symbols, default_index) ==
    IF i > Len(tokens) THEN [exc |-> "none", list |-> acc]
    ELSE LET symboldata == get_symboldata(tokens[i], default_index)
         IN  IF symboldata = << >>
             THEN [exc |-> "X11Error", list |-> << >>]
             ELSE ParseLoop(tokens, i + 1,
                            IF symboldata[1].symbol \notin non_symbols
                            THEN Append(acc, symboldata[1]) ELSE acc,
                            non_symbols, default_index)

\* assert len(indices) == len(set(indices)): TRUE when the statement raises
\* AssertionError; the interpreter run with -O drops the statement.
NoDoublesFails(symboldata_list, optimize) ==
    LET indices == [k \in 1 .. Len(symboldata_list) |-> symboldata_list[k].index]
    IN  /\ ~optimize
        /\ Len(indices) # Cardinality({indices[k] : k \in 1 .. Len(indices)})

_parse_symbols(symbols_str, non_symbols, default_index, optimize) ==
    LET r == ParseLoop(split(symbols_str, "+"), 1, << >>, non_symbols, default_index)
    IN  IF r.exc = "none" /\ NoDoublesFails(r.list, optimize)
        THEN [exc |-> "AssertionError", list |-> << >>]
        ELSE r

\* The default of the parameter default_index
DefaultIndex == 0

\* The symbols _symboldata_list leaves out
NON_SYMBOLS == {<<"p", "c">>, <<"i", "n", "e", "t">>, <<"g", "r", "o", "u", "p">>}

-----------------------------------------------------------------------------
(* The accessors over the names of the description.  The group name atoms  *)
(* 1, 2, ... stand for the names GroupNames; SymbolsAtom stands for the    *)
(* symbols name in_symbols_str.                                            *)

GroupNames == <<<<"e", "n">>, <<"r", "u", "s">>>>

SymbolsAtom == Len(GroupNames) + 1

XGetAtomName(atom) == IF atom = SymbolsAtom THEN in_symbols_str ELSE GroupNames[atom]

AtomNameCall(w) == [w EXCEPT !.calls = Append(@, Call("XGetAtomName", w.self._display))]

GroupData(num, name, symbol, variant) ==
    [num |-> num, name |-> name, symbol |-> symbol, variant |-> variant]

\* _parse_symbols(name of the symbols atom, ["pc", "inet", "group"])
ParsedSymbols ==
    _parse_symbols(XGetAtomName(symbols_source), NON_SYMBOLS, DefaultIndex, py_optimize)

\* _symboldata_list: the list _parse_symbols returns, or what it raises.  The
\* symbols name does not change while the description is held: parsed is
\* ParsedSymbols, computed when the description was fetched.
_symboldata_list(w) ==
    IF symbols_source # None_
    THEN IF parsed.exc = "none" THEN Return(AtomNameCall(w), parsed.list)
         ELSE Raise(AtomNameCall(w), parsed.exc, "_parse_symbols")
    ELSE Raise(w, "X11Error", "Failed to get symbol names")

_get_group_name_by_num(w, group_num) ==
    IF groups_source[group_num + 1] # None_
    THEN Return(AtomNameCall(w), PyStr(XGetAtomName(groups_source[group_num + 1])))
    ELSE Raise(w, "X11Error", "Failed to get group name")

\* The list comprehension of groups_names from group i on.
RECURSIVE NamesFrom(_, _, _, _)
NamesFrom(w, i, n, acc) ==
    IF i >= n THEN Return(w, acc)
    ELSE LET r == _get_group_name_by_num(w, i)
         IN  IF r.exc # "none" THEN r
             ELSE NamesFrom(r.w, i + 1, n, Append(acc, r.ret.str))

groups_names(w) == NamesFrom(groups_count_op(w).w, 0, groups_count(w), << >>)

\* variant or ""
OrEmpty(variant) == IF variant = << >> THEN << >> ELSE variant[1]

groups_symbols(w) ==
    LET r == _symboldata_list(w)
    IN  IF r.exc # "none" THEN r
        ELSE Return(r.w, [k \in 1 .. Len(r.ret) |-> r.ret[k].symbol])

groups_variants(w) ==
    LET r == _symboldata_list(w)
    IN  IF r.exc # "none" THEN r
        ELSE Return(r.w, [k \in 1 .. Len(r.ret) |-> OrEmpty(r.ret[k].variant)])

Min(a, b) == IF a < b THEN a ELSE b

\* zip(range(n), names, symbols, variants)
zip(n, names, symbols, variants) ==
    [k \in 1 .. Min(Min(n, Len(names)), Min(Len(symbols), Len(variants))) |->
        GroupData(k - 1, names[k], symbols[k], variants[k])]

groups_data(w) ==
    LET count    == groups_count_op(w)
        names    == groups_names(count.w)
        symbols  == IF names.exc = "none" THEN groups_symbols(names.w) ELSE names
        variants == IF symbols.exc = "none" THEN groups_variants(symbols.w) ELSE symbols
    IN  IF variants.exc # "none" THEN variants
        ELSE Return(variants.w, zip(count.ret.int, names.ret, symbols.ret, variants.ret))

\* A dict built from the records in list order: the last record of a key is
\* the one the dict keeps.
Last(positions) == CHOOSE k \in positions : \A j \in positions : j <= k
ByIndex(list, index)   == {k \in 1 .. Len(list) : list[k].index = index}
BySymbol(list, symbol) == {k \in 1 .. Len(list) : list[k].symbol = symbol}
ByName(names, name)    == {k \in 1 .. Len(names) : names[k] = name}

\* The getters of the current group; group is the server's answer to
\* XkbGetState.
group_name_op(w, group) ==
    LET num == group_num_op(w, group)
    IN  IF num.exc # "none" THEN num
        ELSE _get_group_name_by_num(num.w, num.ret.int)

\* A getter that takes the record at the position of the group.
group_symbol_by_position(w, group) ==
    LET list == _symboldata_list(w)
        num  == IF list.exc = "none" THEN group_num_op(list.w, group) ELSE list
    IN  IF num.exc # "none" THEN num
        ELSE IF num.ret.int + 1 \notin DOMAIN list.ret
        THEN Raise(num.w, "KeyError", "s_mapping")
        ELSE Return(num.w, PyStr(list.ret[num.ret.int + 1].symbol))

group_symbol_op(w, group) ==
    LET list == _symboldata_list(w)
        num  == IF list.exc = "none" THEN group_num_op(list.w, group) ELSE list
    IN  IF num.exc # "none" THEN num
        ELSE IF ByIndex(list.ret, num.ret.int) = {}
        THEN Raise(num.w, "KeyError", "s_mapping")
        ELSE Return(num.w, PyStr(list.ret[Last(ByIndex(list.ret, num.ret.int))].symbol))

group_variant_op(w, group) ==
    LET list == _symboldata_list(w)
        num  == IF list.exc = "none" THEN group_num_op(list.w, group) ELSE list
    IN  IF num.exc # "none" THEN num
        ELSE IF ByIndex(list.ret, num.ret.int) = {}
        THEN Raise(num.w, "KeyError", "v_mapping")
        ELSE Return(num.w, PyStr(OrEmpty(
                        list.ret[Last(ByIndex(list.ret, num.ret.int))].variant)))

group_data_op(w, group) ==
    LET num     == group_num_op(w, group)
        name    == IF num.exc = "none" THEN group_name_op(num.w, group) ELSE num
        symbol  == IF name.exc = "none" THEN group_symbol_op(name.w, group) ELSE name
        variant == IF symbol.exc = "none" THEN group_variant_op(symbol.w, group)
                   ELSE symbol
    IN  IF variant.exc # "none" THEN variant
        ELSE Return(variant.w, GroupData(num.ret.int, name.ret.str,
                                         symbol.ret.str, variant.ret.str))

\* The group number the group_name setter finds for value: n_mapping[value]
n_mapping(names, value) == Last(ByName(names, value)) - 1

\* The group_name setter; accepted is XkbLockGroup's result.
group_name_setter_op(w, value, accepted) ==
    IF ~_ensure_type(value, "str")
    THEN Raise(w, "ValueError", "Wrong value type")
    ELSE LET names == groups_names(w)
         IN  IF names.exc # "none" THEN names
             ELSE IF ByName(names.ret, value.str) = {}
             THEN Raise(names.w, "ValueError", "Wrong group name")
             ELSE group_num_setter_op(names.w, PyInt(n_mapping(names.ret, value.str)),
                                      accepted)

\* The index the group_symbol setter finds for value: s_mapping[value]
s_mapping(list, value) == list[Last(BySymbol(list, value))].index

\* The group_symbol setter; accepted is XkbLockGroup's result.
group_symbol_setter_op(w, value, accepted) ==
    IF ~_ensure_type(value, "str")
    THEN Raise(w, "ValueError", "Wrong value type")
    ELSE LET list == _symboldata_list(w)
         IN  IF list.exc # "none" THEN list
             ELSE IF BySymbol(list.ret, value.str) = {}
             THEN Raise(list.w, "ValueError", "Wrong group symbol")
             ELSE group_num_setter_op(list.w, PyInt(s_mapping(list.ret, value.str)),
                                      accepted)

-----------------------------------------------------------------------------
(* Symbol strings as the server composes them: tokens joined by "+" *)

Token(symbol, variant, suffix) ==
    [wf |-> TRUE, symbol |-> symbol, variant |-> variant, suffix |-> suffix,
     text |-> symbol
              \o (IF variant = << >> THEN << >> ELSE <<"(">> \o variant[1] \o <<")">>)
              \o (IF suffix = << >> THEN << >> ELSE <<":">> \o str(suffix[1]))]

Malformed(text) ==
    [wf |-> FALSE, symbol |-> << >>, variant |-> << >>, suffix |-> << >>, text |-> text]

Suffixes == {<< >>} \cup {<<n>> : n \in 0 .. MaxSuffix}

TokenPool ==
    {Token(<<"p", "c">>, << >>, << >>)}
    \cup {Token(<<"u", "s">>, << >>, x) : x \in Suffixes}
    \cup {Token(<<"r", "u">>, v, x) : v \in {<< >>, <<<<"p", "h">>>>}, x \in Suffixes}
    \cup {Malformed(<< >>), Malformed(<<"u", "s", ")", "(", "b", "a", "d">>),
          Malformed(<<"p", "c", ":">>)}

NotParsed == [exc |-> "not called", list |-> << >>]

\* A keyboard without names.
PinnedNames ==
    /\ groups_source = [i \in 1 .. XkbNumKbdGroups |-> None_]
    /\ symbols_source = None_

PinnedParser ==
    /\ toks = << >>
    /\ in_symbols_str = << >>
    /\ in_non_symbols = {}
    /\ py_optimize = FALSE
    /\ parsed = NotParsed

-----------------------------------------------------------------------------
(* The session as a state machine *)

Init ==
    /\ phase = "new"
    /\ self = << >>
    /\ conns = {}
    /\ descs = [d \in DescIds |-> NoDesc]
    /\ srvNumGroups \in 1 .. XkbNumKbdGroups
    /\ srvGroup \in 0 .. srvNumGroups - 1
    /\ groupsWrap \in {"XkbWrapIntoRange", "XkbClampIntoRange", "XkbRedirectIntoRange"}
    /\ prevOp = "new"
    /\ lastOp = "new"
    /\ exc = "none"
    /\ msg = ""
    /\ ret = None
    /\ arg = None
    /\ calls = << >>
    /\ PinnedParser
    /\ PinnedNames

\* The instance and the observation of the call that returned r.
Returned(op, r, a) ==
    /\ self' = r.w.self
    /\ conns' = r.w.conns
    /\ descs' = r.w.descs
    /\ calls' = r.w.calls
    /\ prevOp' = lastOp
    /\ lastOp' = op
    /\ exc' = r.exc
    /\ msg' = r.msg
    /\ ret' = r.ret
    /\ arg' = a

Usable == phase = "live" /\ exc # "crash"

ServerUnchanged ==
    /\ UNCHANGED <<srvGroup, srvNumGroups, groupsWrap>>
    /\ UNCHANGED parserVars
    /\ UNCHANGED namesVars

\* XKeyboard(auto_open): when open_display raises, the caller gets no
\* instance and the finalizer __del__ runs on the abandoned one.
__init__ ==
    /\ phase = "new"
    /\ \E auto_open \in BOOLEAN, answer \in OpenAnswers(World) :
         LET r == IF auto_open
                  THEN open_display_op(World, srvNumGroups, answer)
                  ELSE Return(World, None)
         IN  /\ Returned("__init__",
                         IF r.exc = "none" THEN r
                         ELSE [r EXCEPT !.w = close_display_op(r.w).w],
                         PyInt(IF auto_open THEN 1 ELSE 0))
             /\ phase' = IF r.exc = "none" THEN "live" ELSE "dead"
    /\ ServerUnchanged

open_display ==
    /\ Usable
    /\ \E answer \in OpenAnswers(World) :
         Returned("open_display", open_display_op(World, srvNumGroups, answer), None)
    /\ UNCHANGED phase
    /\ ServerUnchanged

close_display ==
    /\ Usable
    /\ Returned("close_display", close_display_op(World), None)
    /\ UNCHANGED phase
    /\ ServerUnchanged

__del__ ==
    /\ Usable
    /\ Returned("__del__", close_display_op(World), None)
    /\ phase' = "dead"
    /\ ServerUnchanged

__enter__ ==
    /\ Usable
    /\ \E answer \in OpenAnswers(World) :
         Returned("__enter__", open_display_op(World, srvNumGroups, answer), None)
    /\ UNCHANGED phase
    /\ ServerUnchanged

__exit__ ==
    /\ Usable
    /\ Returned("__exit__", close_display_op(World), None)
    /\ UNCHANGED phase
    /\ ServerUnchanged

group_num ==
    /\ Usable
    /\ Returned("group_num", group_num_op(World, srvGroup), arg)
    /\ UNCHANGED phase
    /\ ServerUnchanged

group_num_setter ==
    /\ Usable
    /\ \E value \in Values, accepted \in BOOLEAN :
         LET r == group_num_setter_op(World, value, accepted)
         IN  /\ Returned("group_num.setter", r, value)
             /\ srvGroup' = IF r.exc = "none"
                            THEN XkbLockGroup(LockRequest(value), srvNumGroups, groupsWrap)
                            ELSE srvGroup
    /\ UNCHANGED <<phase, srvNumGroups, groupsWrap>>
    /\ UNCHANGED parserVars
    /\ UNCHANGED namesVars

Next ==
    \/ __init__
    \/ open_display
    \/ close_display
    \/ __del__
    \/ __enter__
    \/ __exit__
    \/ group_num
    \/ group_num_setter

-----------------------------------------------------------------------------
(* The parser as a state machine *)

PinnedSession ==
    /\ phase = "new"
    /\ self = << >>
    /\ conns = {}
    /\ descs = [d \in DescIds |-> NoDesc]
    /\ srvNumGroups = 1
    /\ srvGroup = 0
    /\ groupsWrap = "XkbWrapIntoRange"
    /\ prevOp = "new"
    /\ lastOp = "new"
    /\ exc = "none"
    /\ msg = ""
    /\ ret = None
    /\ arg = None
    /\ calls = << >>

InitParse == PinnedSession /\ PinnedParser /\ PinnedNames

\* The server appends one more token to the symbols name.
AddToken ==
    /\ parsed = NotParsed
    /\ Len(toks) < MaxTokens
    /\ \E t \in TokenPool :
         /\ toks' = Append(toks, t)
         /\ in_symbols_str' = IF toks = << >> THEN t.text
                           ELSE in_symbols_str \o <<"+">> \o t.text
    /\ UNCHANGED <<in_non_symbols, py_optimize, parsed>>
    /\ UNCHANGED sessionVars
    /\ UNCHANGED namesVars

\* _parse_symbols(symbols_str, ignored) under an interpreter with or without -O
Parse ==
    /\ parsed = NotParsed
    /\ toks # << >>
    /\ \E ignored \in {{}, NON_SYMBOLS}, o \in BOOLEAN :
         /\ in_non_symbols' = ignored
         /\ py_optimize' = o
         /\ parsed' = _parse_symbols(in_symbols_str, ignored, DefaultIndex, o)
    /\ UNCHANGED <<toks, in_symbols_str>>
    /\ UNCHANGED sessionVars
    /\ UNCHANGED namesVars

NextParse ==
    \/ AddToken
    \/ Parse

-----------------------------------------------------------------------------
Spec == Init /\ [][Next]_vars

SpecParse == InitParse /\ [][NextParse]_vars

-----------------------------------------------------------------------------
(* The Session as the specification describes it *)

Held(name) == name \in DOMAIN self /\ self[name] # Null

ConnectionHeld  == Held("_display")
DescriptionHeld == Held("_keyboard_description")

SessionOpen   == ConnectionHeld /\ DescriptionHeld
SessionClosed == ~ConnectionHeld /\ ~DescriptionHeld

PublicOps == {"open_display", "close_display", "group_num.setter",
              "__enter__", "__exit__"}

Called(fn) == \E i \in 1 .. Len(calls) : calls[i].fn = fn

\* The connections the last operation acquired and went on to use.
ConnectionsAcquired ==
    {calls[i].h : i \in {k \in 1 .. Len(calls) : calls[k].fn = "XkbGetMap"}}

-----------------------------------------------------------------------------
(* The accessors as a state machine: an XKeyboard opened on a keyboard     *)
(* whose group names, controls and symbols name the server chose.          *)

QueryPool ==
    {Token(<<"p", "c">>, << >>, << >>),
     Token(<<"u", "s">>, << >>, << >>),
     Token(<<"r", "u">>, <<<<"p", "h">>>>, << >>),
     Token(<<"r", "u">>, <<<<"p", "h">>>>, <<0>>),
     Token(<<"r", "u">>, <<<<"p", "h">>>>, <<2>>),
     Malformed(<<"u", "s", ")", "(", "b", "a", "d">>)}

\* The symbols names of one to MaxLayouts tokens.
QueryToks == UNION {[1 .. n -> QueryPool] : n \in 1 .. MaxLayouts}

RECURSIVE Joined(_)
Joined(ts) ==
    IF Len(ts) = 1 THEN ts[1].text
    ELSE Joined(SubSeq(ts, 1, Len(ts) - 1)) \o <<"+">> \o ts[Len(ts)].text

\* The instance after XKeyboard() on a server that answers every step of
\* the handshake with success.
Opened(nGroups) ==
    open_display_op([self |-> << >>, conns |-> {},
                     descs |-> [d \in DescIds |-> NoDesc], calls |-> << >>],
                    nGroups, Answer(XkbOD_Success, TRUE, Success, Success)).w

\* Either the group names and the controls block vary under the symbols name
\* "us+ru(ph):2", or the symbols name and the interpreter mode vary under
\* groups that are all named.  With a controls block the server names no
\* group past num_groups; without one it has as many groups as leading names
\* (one when the first slot has no name).
InitQuery ==
    /\ phase = "live"
    /\ srvNumGroups \in 1 .. XkbNumKbdGroups
    /\ srvGroup = 0
    /\ groupsWrap = "XkbWrapIntoRange"
    /\ self = Opened(srvNumGroups).self
    /\ conns = Opened(srvNumGroups).conns
    /\ calls = Opened(srvNumGroups).calls
    /\ prevOp = "new"
    /\ lastOp = "__init__"
    /\ exc = "none"
    /\ msg = ""
    /\ ret = None
    /\ arg = None
    /\ in_non_symbols = NON_SYMBOLS
    /\ \/ /\ \E ctrls \in BOOLEAN :
                /\ descs = IF ctrls THEN Opened(srvNumGroups).descs
                           ELSE [Opened(srvNumGroups).descs EXCEPT
                                   ![self._keyboard_description].parts = @ \ {"ctrls"}]
                /\ groups_source \in
                     {f \in [1 .. XkbNumKbdGroups -> {None_} \cup DOMAIN GroupNames] :
                        IF ctrls
                        THEN \A i \in srvNumGroups + 1 .. XkbNumKbdGroups : f[i] = None_
                        ELSE srvNumGroups = IF f[1] = None_ THEN 1
                                            ELSE ScanGroups(f, 0, << >>).count}
          /\ symbols_source = SymbolsAtom
          /\ toks = <<Token(<<"u", "s">>, << >>, << >>),
                      Token(<<"r", "u">>, <<<<"p", "h">>>>, <<2>>)>>
          /\ py_optimize = FALSE
       \/ /\ groups_source = [i \in 1 .. XkbNumKbdGroups |->
                                ((i - 1) % Len(GroupNames)) + 1]
          /\ descs = Opened(srvNumGroups).descs
          /\ symbols_source \in {None_, SymbolsAtom}
          /\ toks \in (IF symbols_source = None_
                        THEN {<<Token(<<"u", "s">>, << >>, << >>)>>}
                        ELSE QueryToks)
          /\ py_optimize \in BOOLEAN
    /\ in_symbols_str = Joined(toks)
    /\ parsed = IF symbols_source = None_ THEN NotParsed ELSE ParsedSymbols

QueryUsable == phase = "live" /\ SessionOpen

\* The instance and the observation of the accessor that returned r.
Observed(op, r, a) ==
    /\ self' = r.w.self
    /\ conns' = r.w.conns
    /\ descs' = r.w.descs
    /\ calls' = r.w.calls
    /\ lastOp' = op
    /\ exc' = r.exc
    /\ msg' = r.msg
    /\ ret' = r.ret
    /\ arg' = a
    /\ UNCHANGED prevOp

\* A getter returned r.
Got(op, r) ==
    /\ QueryUsable
    /\ Observed(op, r, None)
    /\ UNCHANGED phase
    /\ ServerUnchanged

read_groups_count    == Got("groups_count", groups_count_op(World))
read_groups_names    == Got("groups_names", groups_names(World))
read_groups_symbols  == Got("groups_symbols", groups_symbols(World))
read_groups_variants == Got("groups_variants", groups_variants(World))
read_groups_data     == Got("groups_data", groups_data(World))
read_group_data      == Got("group_data", group_data_op(World, srvGroup))
read_group_name      == Got("group_name", group_name_op(World, srvGroup))
read_group_symbol    == Got("group_symbol", group_symbol_op(World, srvGroup))
read_group_variant   == Got("group_variant", group_variant_op(World, srvGroup))

\* The names and the symbols a caller assigns: those the keyboard may have
\* and one it has not.
NameTexts   == {GroupNames[i] : i \in DOMAIN GroupNames} \cup {<<"f", "r">>}
SymbolTexts == {<<"p", "c">>, <<"u", "s">>, <<"r", "u">>, <<"f", "r">>}

\* A value that is not a str.
NotStr == [type |-> "NoneType", int |-> 0, str |-> << >>]

\* A setter given value returned r after asking the server to lock group.
Assigned(op, r, value, group) ==
    /\ Observed(op, r, value)
    /\ srvGroup' = IF r.exc = "none"
                   THEN XkbLockGroup(LockRequest(PyInt(group)), srvNumGroups, groupsWrap)
                   ELSE srvGroup
    /\ UNCHANGED <<phase, srvNumGroups, groupsWrap>>
    /\ UNCHANGED parserVars
    /\ UNCHANGED namesVars

\* The group numbers a caller assigns: those a keyboard may have, and a str.
QueryNums == {PyInt(n) : n \in 0 .. XkbNumKbdGroups - 1} \cup {PyStr("fr")}

assign_group_num ==
    /\ QueryUsable
    /\ \E value \in QueryNums, accepted \in BOOLEAN :
         Assigned("group_num.setter", group_num_setter_op(World, value, accepted),
                  value, IF value.type = "int" THEN value.int ELSE 0)

assign_group_name ==
    /\ QueryUsable
    /\ \E value \in {PyStr(text) : text \in NameTexts} \cup {NotStr},
          accepted \in BOOLEAN :
         LET r == group_name_setter_op(World, value, accepted)
         IN  Assigned("group_name.setter", r, value,
                      IF r.exc = "none"
                      THEN n_mapping(groups_names(World).ret, value.str) ELSE 0)

assign_group_symbol ==
    /\ QueryUsable
    /\ \E value \in {PyStr(text) : text \in SymbolTexts} \cup {NotStr},
          accepted \in BOOLEAN :
         LET r == group_symbol_setter_op(World, value, accepted)
         IN  Assigned("group_symbol.setter", r, value,
                      IF r.exc = "none"
                      THEN s_mapping(_symboldata_list(World).ret, value.str) ELSE 0)

NextQuery ==
    \/ read_groups_count
    \/ read_groups_names
    \/ read_groups_symbols
    \/ read_groups_variants
    \/ read_groups_data
    \/ read_group_data
    \/ read_group_name
    \/ read_group_symbol
    \/ read_group_variant
    \/ assign_group_num
    \/ assign_group_name
    \/ assign_group_symbol

SpecQuery == InitQuery /\ [][NextQuery]_vars

-----------------------------------------------------------------------------
(* Claims *)

\* C1: at the return of every public Session operation the keyboard
\* description is held if and only if the connection is held.
C1_HeldTogether ==
    lastOp \in PublicOps => (DescriptionHeld <=> ConnectionHeld)

\* C2: when open_display (or __enter__) fails at a step of the handshake, the
\* error reaches the caller with every resource acquired by the earlier steps
\* released, the server connection included, and the Session Closed.
C2_FailedOpenIsClosed ==
    (lastOp \in {"open_display", "__enter__"} /\ exc = "X11Error")
        => /\ SessionClosed
           /\ ConnectionsAcquired \cap conns = {}
           /\ Allocated(descs) = {}

\* C3: over any sequence of open and close calls the number of connections
\* acquired and not yet released never exceeds one.
C3_AtMostOneConnection == Cardinality(conns) <= 1

\* C4: close_display never raises, and a close_display that directly follows
\* a close_display makes no release call and changes nothing of the instance,
\* the connections or the descriptions.
C4_CloseIdempotent ==
    [][lastOp' = "close_display"
          => /\ exc' = "none"
             /\ lastOp = "close_display"
                   => /\ calls' = << >>
                      /\ self' = self
                      /\ conns' = conns
                      /\ descs' = descs]_vars

\* C4 witness: a second close_display in a row has returned on an instance
\* that had opened a connection.
C4_Witness ==
    /\ prevOp = "close_display"
    /\ lastOp = "close_display"
    /\ exc = "none"
    /\ calls = << >>
    /\ conns # {}

\* C5: when the server rejects the group lock of the group_num setter on an
\* Open Session, the X11Error reaches the caller with the Session Closed
\* (description and connection released) and without a flush.
C5_RejectedLockCloses ==
    [][(SessionOpen /\ lastOp' = "group_num.setter" /\ exc' = "X11Error")
          => /\ SessionClosed'
             /\ self._display \notin conns'
             /\ Allocated(descs') = {}
             /\ ~Called("XFlush")']_vars

\* C6: on an Open Session, reading group_num right after group_num = g has
\* returned, for 0 <= g < groups_count, returns g.
C6_RoundTrip ==
    [][(/\ SessionOpen
        /\ lastOp = "group_num.setter"
        /\ exc = "none"
        /\ arg.int \in 0 .. groups_count(World) - 1
        /\ lastOp' = "group_num")
          => (exc' = "none" /\ ret' = PyInt(arg.int))]_vars

\* C6 witness: a group other than the first was assigned and read back.
C6_Witness ==
    /\ SessionOpen
    /\ prevOp = "group_num.setter"
    /\ lastOp = "group_num"
    /\ arg.type = "int"
    /\ arg.int \in 1 .. groups_count(World) - 1
    /\ ret = PyInt(arg.int)

\* C7: on an Open Session, whatever integers were assigned to group_num, a
\* read of group_num returns an integer in 0 .. groups_count - 1.
C7_GroupNumInRange ==
    (SessionOpen /\ lastOp = "group_num" /\ exc = "none")
        => (ret.type = "int" /\ ret.int \in 0 .. groups_count(World) - 1)

\* C7 witness: group_num was read on an Open Session right after a negative
\* value, or one not below groups_count, was assigned and accepted.
C7_Witness ==
    /\ SessionOpen
    /\ prevOp = "group_num.setter"
    /\ lastOp = "group_num"
    /\ exc = "none"
    /\ arg.type = "int"
    /\ (arg.int < 0 \/ arg.int >= groups_count(World))
    /\ ret.int \in 1 .. groups_count(World) - 1


-----------------------------------------------------------------------------
(* The symbol string as it was composed, for the claims on _parse_symbols *)

WellFormed == \A k \in 1 .. Len(toks) : toks[k].wf

\* The positions of the tokens whose symbol is not ignored, in order.
RECURSIVE RetainedFrom(_)
RetainedFrom(k) ==
    IF k > Len(toks) THEN << >>
    ELSE (IF toks[k].symbol \notin in_non_symbols THEN <<k>> ELSE << >>)
         \o RetainedFrom(k + 1)

Retained == RetainedFrom(1)

\* The index the specification gives a token: its suffix minus one, or the
\* fixed default.
TokenIndex(t) == IF t.suffix = << >> THEN DefaultIndex ELSE t.suffix[1] - 1

RetainedShareIndex ==
    \E i, j \in 1 .. Len(Retained) :
        i # j /\ TokenIndex(toks[Retained[i]]) = TokenIndex(toks[Retained[j]])

IndicesDistinct(list) ==
    \A i, j \in 1 .. Len(list) : i # j => list[i].index # list[j].index

WasParsed == parsed # NotParsed

\* C8: _parse_symbols fails with X11Error whenever two retained tokens
\* resolve to the same index, and every list it returns has pairwise
\* distinct indices.
C8_SharedIndexIsX11Error ==
    WasParsed
        => /\ (WellFormed /\ RetainedShareIndex) => parsed.exc = "X11Error"
           /\ parsed.exc = "none" => IndicesDistinct(parsed.list)

\* C9: the record of every retained token stores the token's suffix minus
\* one when the token has an explicit suffix, and the fixed default index 0
\* when it has none, whatever the token's position.
C9_IndexRule ==
    (WasParsed /\ parsed.exc = "none")
        => /\ Len(parsed.list) = Len(Retained)
           /\ \A k \in 1 .. Len(Retained) :
                 LET t == toks[Retained[k]]
                 IN  /\ parsed.list[k].symbol = t.symbol
                     /\ t.suffix # << >> => parsed.list[k].index = t.suffix[1] - 1
                     /\ t.suffix = << >> => parsed.list[k].index = 0

\* C9 witness: "us+ru(ph):2" was parsed: us has no suffix and gets 0, ru has
\* the suffix 2, in second position, and gets 1.
C9_Witness ==
    /\ in_symbols_str = <<"u", "s", "+", "r", "u", "(", "p", "h", ")", ":", "2">>
    /\ parsed.exc = "none"
    /\ Len(parsed.list) = 2
    /\ parsed.list[1].index = 0
    /\ parsed.list[2].index = 1

\* C10: every record _parse_symbols returns has a non-negative index.
C10_IndexNonNegative ==
    (WasParsed /\ parsed.exc = "none")
        => \A k \in 1 .. Len(parsed.list) : parsed.list[k].index >= 0

\* C11: the records _parse_symbols returns are those of the tokens whose
\* symbol is not in the ignored set, in token order, each with the symbol and
\* the variant of its token; and the ignored tokens take no part in the
\* duplicate-index check: a well-formed string whose retained tokens have
\* distinct indices is parsed, whatever the indices of the ignored ones.
C11_IgnoredFiltered ==
    WasParsed
        => /\ parsed.exc = "none"
                => /\ \A k \in 1 .. Len(parsed.list) :
                         parsed.list[k].symbol \notin in_non_symbols
                   /\ [k \in 1 .. Len(parsed.list) |->
                          <<parsed.list[k].symbol, parsed.list[k].variant>>]
                      = [k \in 1 .. Len(Retained) |->
                          <<toks[Retained[k]].symbol, toks[Retained[k]].variant>>]
           /\ (WellFormed /\ ~RetainedShareIndex) => parsed.exc = "none"

\* C11 witness: "pc+us+ru(ph):2" was parsed with pc ignored: pc and us both
\* resolve to index 0, and the records are (us, no variant, 0) and
\* (ru, ph, 1).
C11_Witness ==
    /\ in_symbols_str = <<"p", "c", "+", "u", "s", "+",
                          "r", "u", "(", "p", "h", ")", ":", "2">>
    /\ in_non_symbols = NON_SYMBOLS
    /\ ~py_optimize
    /\ parsed = [exc |-> "none",
                 list |-> <<SymbolData(<<"u", "s">>, << >>, 0),
                            SymbolData(<<"r", "u">>, <<<<"p", "h">>>>, 1)>>]

\* C12: _parse_symbols fails with X11Error and returns no record whenever a
\* token of the string, the empty token and a token of an ignored symbol
\* included, does not match the token grammar over its whole length.
C12_MalformedRejected ==
    (WasParsed /\ ~WellFormed) => parsed = [exc |-> "X11Error", list |-> << >>]

\* C12 witness: a string with the token "us)(bad", and one with the token
\* "pc:" parsed with pc ignored, were rejected.
C12_Witness ==
    /\ parsed.exc = "X11Error"
    /\ in_non_symbols = NON_SYMBOLS
    /\ \E k \in 1 .. Len(toks) : toks[k].text = <<"u", "s", ")", "(", "b", "a", "d">>
    /\ \E k \in 1 .. Len(toks) : toks[k].text = <<"p", "c", ":">>
    /\ \E k \in 1 .. Len(toks) : toks[k].wf

-----------------------------------------------------------------------------
(* The keyboard as the server set it up, for the claims on the accessors *)

ControlsPresent == "ctrls" \in descs[self._keyboard_description].parts

\* The position of the first group name slot without a name, or the number
\* of slots when every slot has one.
FirstSentinel ==
    IF \E i \in 1 .. XkbNumKbdGroups : groups_source[i] = None_
    THEN (CHOOSE i \in 1 .. XkbNumKbdGroups :
             /\ groups_source[i] = None_
             /\ \A j \in 1 .. i - 1 : groups_source[j] # None_) - 1
    ELSE XkbNumKbdGroups

SlotsRead == {calls[k].h : k \in {i \in 1 .. Len(calls) : calls[i].fn = "groups_source[]"}}

\* C13: groups_count returns num_groups of the controls block whenever the
\* block is present; when it is absent it returns the position of the first
\* group name slot holding None, or XkbNumKbdGroups when none of the slots
\* does, and it reads no slot at or beyond XkbNumKbdGroups.
C13_GroupsCount ==
    lastOp = "groups_count"
        => /\ exc = "none"
           /\ ControlsPresent
                => /\ ret = PyInt(descs[self._keyboard_description].num_groups)
                   /\ SlotsRead = {}
           /\ ~ControlsPresent
                => /\ ret = PyInt(FirstSentinel)
                   /\ SlotsRead \subseteq 0 .. XkbNumKbdGroups - 1

\* C13 witness: without a controls block and with a name in every slot,
\* groups_count read the four slots and returned 4.
C13_Witness ==
    /\ lastOp = "groups_count"
    /\ ~ControlsPresent
    /\ \A i \in 1 .. XkbNumKbdGroups : groups_source[i] # None_
    /\ ret = PyInt(XkbNumKbdGroups)
    /\ SlotsRead = 0 .. XkbNumKbdGroups - 1

\* C14: every record g of groups_data has the symbol and the variant of the
\* parsed record whose index equals g.num, whatever the order of the tokens,
\* and the record of groups_data at position group_num is group_data.
C14_JoinedByIndex ==
    (lastOp = "groups_data" /\ exc = "none")
        => /\ \A k \in 1 .. Len(ret) :
                 \E j \in 1 .. Len(parsed.list) :
                    /\ parsed.list[j].index = ret[k].num
                    /\ parsed.list[j].symbol = ret[k].symbol
                    /\ OrEmpty(parsed.list[j].variant) = ret[k].variant
           /\ group_data_op(World, srvGroup).exc = "none"
                 => /\ srvGroup + 1 <= Len(ret)
                    /\ ret[srvGroup + 1] = group_data_op(World, srvGroup).ret

Setters == {"group_num.setter", "group_name.setter", "group_symbol.setter"}

\* The names of the groups and the symbols of the retained tokens.
NamesOfGroups ==
    {XGetAtomName(groups_source[i]) :
        i \in {k \in 1 .. groups_count(World) : groups_source[k] # None_}}
SymbolsOfGroups == {toks[Retained[k]].symbol : k \in 1 .. Len(Retained)}

\* The value given to the setter op is not one it can map to a group.
InvalidValue(op, value) ==
    CASE op = "group_num.setter"    -> value.type # "int"
      [] op = "group_name.setter"   -> value.type # "str" \/ value.str \notin NamesOfGroups
      [] op = "group_symbol.setter" -> value.type # "str" \/ value.str \notin SymbolsOfGroups
      [] OTHER -> FALSE

\* A setter that failed has changed nothing: no lock request, the active
\* group as it was, the Session Open with its connection and description.
NothingChanged ==
    /\ exc' # "none"
    /\ ~Called("XkbLockGroup")'
    /\ srvGroup' = srvGroup
    /\ SessionOpen'
    /\ self' = self
    /\ conns' = conns
    /\ descs' = descs

NamesUnreadable ==
    \E i \in 1 .. groups_count(World) : groups_source[i] = None_
SymbolsUnreadable ==
    \/ symbols_source = None_
    \/ ~WellFormed
    \/ RetainedShareIndex /\ ~py_optimize

C16_RoundTripByNameAndSymbol ==
    [][/\ (SessionOpen /\ lastOp = "group_name.setter" /\ exc = "none"
           /\ lastOp' = "group_name")
             => (exc' = "none" /\ ret' = arg)
       /\ (SessionOpen /\ lastOp = "group_symbol.setter" /\ exc = "none"
           /\ lastOp' = "group_symbol")
             => (exc' = "none" /\ ret' = arg)]_vars

\* The last retained token of symbol s has an index of a group of the
\* keyboard, and no later retained token has that index.
SymbolNamesGroup(s) ==
    LET last == Last({k \in 1 .. Len(Retained) : toks[Retained[k]].symbol = s})
        i    == TokenIndex(toks[Retained[last]])
    IN  /\ i \in 0 .. groups_count(World) - 1
        /\ \A j \in last + 1 .. Len(Retained) : TokenIndex(toks[Retained[j]]) # i

\* C16 amended: the round trip by name holds as stated; the round trip by
\* symbol holds for every symbol s whose last token has an index below
\* groups_count that no later token has.
C16_RoundTripInRange ==
    [][/\ (SessionOpen /\ lastOp = "group_name.setter" /\ exc = "none"
           /\ lastOp' = "group_name")
             => (exc' = "none" /\ ret' = arg)
       /\ (SessionOpen /\ lastOp = "group_symbol.setter" /\ exc = "none"
           /\ SymbolNamesGroup(arg.str)
           /\ lastOp' = "group_symbol")
             => (exc' = "none" /\ ret' = arg)]_vars

\* C16 witness: "ru" was assigned to group_symbol of the keyboard
\* "ru(ph)+ru(ph):2" with two groups; the second group is active and
\* group_symbol reads "ru".
C16_Witness ==
    /\ SessionOpen
    /\ lastOp = "group_symbol.setter"
    /\ exc = "none"
    /\ arg = PyStr(<<"r", "u">>)
    /\ Len(toks) = 2
    /\ toks[1].symbol = toks[2].symbol
    /\ ~py_optimize
    /\ srvGroup = 1
    /\ groups_count(World) = 2
    /\ group_symbol_op(World, srvGroup).ret = arg

-----------------------------------------------------------------------------
(* The calls of one operation, for the claims on their order *)

HandshakeSteps == <<"XkbOpenDisplay", "XkbGetMap", "XkbGetControls", "XkbGetNames">>

IsStep(call) == \E k \in DOMAIN HandshakeSteps : HandshakeSteps[k] = call.fn

\* The handshake requests of the last operation, in the order it made them.
StepsMade == SelectSeq(calls, IsStep)

OpenOps == {"open_display", "__enter__"}

\* C17: while the Session is Closed (never opened, closed, left by a failed
\* open, closed by a rejected lock: no description is held), reading or
\* assigning group_num issues no request to the server.
C17_ClosedIssuesNoRequest ==
    [][(phase = "live" /\ ~DescriptionHeld
        /\ lastOp' \in {"group_num", "group_num.setter"})
          => calls' = << >>]_vars

\* C18: open_display makes the requests connect, fetch map, fetch controls,
\* fetch names in that order, each once; every request before the last one
\* it made succeeded; it returns normally exactly when it made all four and
\* the last succeeded, and raises X11Error when the last one it made failed.
C18_HandshakeInOrder ==
    lastOp \in OpenOps
        => /\ Len(StepsMade) \in 1 .. Len(HandshakeSteps)
           /\ \A k \in 1 .. Len(StepsMade) : StepsMade[k].fn = HandshakeSteps[k]
           /\ \A k \in 1 .. Len(StepsMade) - 1 : StepsMade[k].ok
           /\ exc \in {"none", "X11Error"}
           /\ exc = "none" <=> /\ Len(StepsMade) = Len(HandshakeSteps)
                               /\ StepsMade[Len(StepsMade)].ok
           /\ exc = "none" => /\ SessionOpen
                              /\ self._display \in conns
                              /\ descs[self._keyboard_description].parts = Parts

\* C18 witness: an open_display whose fetch of the controls failed made
\* three requests and raised X11Error.
C18_Witness ==
    /\ lastOp = "open_display"
    /\ exc = "X11Error"
    /\ Len(StepsMade) = 3
    /\ StepsMade[1].ok /\ StepsMade[2].ok /\ ~StepsMade[3].ok
    /\ ~Called("XkbGetNames")

\* The description d is released in full, names then controls then map, by
\* the calls before position i.
ReleasedBefore(log, d, i) ==
    \E j \in 1 .. i - 3 :
        /\ log[j] = Call("XkbFreeNames", d)
        /\ log[j + 1] = Call("XkbFreeControls", d)
        /\ log[j + 2] = Call("XkbFreeClientMap", d)

C20_AcceptedLockFlushed ==
    [][(SessionOpen /\ lastOp' = "group_num.setter" /\ exc' = "none")
          => /\ calls' = <<Call("XkbLockGroup", self._display),
                           Call("XFlush", self._display)>>
             /\ self' = self
             /\ conns' = conns
             /\ descs' = descs
             /\ SessionOpen']_vars

\* C20 witness: group_num = 1 was accepted on an Open Session: one lock call
\* followed by one flush.
C20_Witness ==
    /\ SessionOpen
    /\ lastOp = "group_num.setter"
    /\ exc = "none"
    /\ arg = PyInt(1)
    /\ srvGroup = 1
    /\ Len(calls) = 2
    /\ calls[1].fn = "XkbLockGroup"
    /\ calls[2].fn = "XFlush"

====
